---- MODULE Spec2Model ----
(***************************************************************************)
(* Model of the angular-leaf REST backend: the credential store and the    *)
(* token issuer (AuthService, UsersService, JwtStrategy, RolesGuard) and   *)
(* the classifier proxy (MlModelService), the upload service               *)
(* (ImageClassificationService), the recommendations service               *)
(* (RecommendationsService) with its two generators, and the health report *)
(* (HealthController).                                                     *)
(*                                                                         *)
(* Every HTTP request is an independent asynchronous task.  A request      *)
(* occupies a slot of `req`; each action below is the code of one handler  *)
(* between two suspension points (database reads and writes).              *)
(***************************************************************************)
EXTENDS Integers, Sequences, FiniteSets, TLC

\* ------------------------------------------------------------------ bounds
MaxUsers == 2
MaxReqs == 2           \* requests in flight at the same time
MaxIssue == 2          \* token pairs issued in one behaviour
MaxRetriesEnv == 4     \* largest ML_API_MAX_RETRIES value tried
MaxBatch == 2          \* files in one batch request
ConfidenceSteps == 20  \* confidences are the multiples of 1/ConfidenceSteps in [0,1]
MaxRecs == 2           \* recommendations stored
MaxClock == 4          \* writes to the recommendations collection in one behaviour
MaxList == 25          \* recommendations stored when lists are asked for
MaxLimit == 10         \* largest limit of a list query
MaxSkip == 20          \* largest skip of a list query

Ids == 1..MaxUsers
Reqs == 1..MaxReqs

\* ------------------------------------------------------------ user roles
FARMER == "farmer"
MANAGER == "manager"
ADMIN == "admin"
UserRole == {FARMER, MANAGER, ADMIN}

\* role lists an admin request can carry in its body (IsArray, IsEnum each)
RoleInputs == {{}, {MANAGER, ADMIN}}

\* ------------------------------------------------------------------ emails
\* an address as typed in a request body: mailbox k, spelled in lower case
\* or with capitals
RawEmails == {"lower", "Capitals"} \X (1..MaxUsers)

\* the schema setters of User.email: lowercase and trim
NormEmail(e) == <<"lower", e[2]>>

Passwords == {"Passw0rd!"}
PasswordGuesses == Passwords \cup {"Wr0ng!pass"}
Names == {"n1"}

\* ---------------------------------------------------------------- hashing
\* bcrypt.hash of a password, and bcrypt.compare against it
HashPassword(p) == <<"bcrypt", p>>
ComparePassword(p, h) == h = HashPassword(p)

\* refresh tokens: the subject and the issue instant
NoTok == [sub |-> 0, n |-> 0]
\* bcrypt.hash of a refresh token; NullHash is the cleared (null) field
HashToken(t) == [bh |-> t]
NullHash == [bh |-> NoTok]
CompareToken(t, h) == h = HashToken(t)

\* access tokens: the claims signed into them
NoAcc == [sub |-> 0, roles |-> {}]

VARIABLES
    users,          \* the users collection: id -> document
    issued,         \* the token pairs signed so far: subject and roles claim of pair n
    req,            \* the request slots: requests in flight and responses going out
    loggedOut,      \* users whose last completed session operation was a logout
    deactivated,    \* users deactivated (deactivate/remove) and not activated since
    mlN,            \* MlModelService.maxRetries
    mlPc,           \* position of the classify call
    mlAttempt,      \* loop variable of makeRequestWithRetry
    mlSent,         \* requests sent to the classifier by this call
    mlLast,         \* outcome of the last attempt
    mlFirstOk,      \* number of the first successful attempt (0: none)
    mlUnlinks,      \* unlink calls made on the temporary file
    mlResult,       \* what classifyImage handed to its caller
    upPc,           \* position of the upload operation of ImageClassificationService
    upKind,         \* "single" (classifyImage) or "batch" (classifyImagesBatch)
    upFiles,        \* the files multer wrote to disk for the request
    task,           \* per file: the MlModelService.classifyImage call made for it
    upStatus,       \* HTTP error kind of the response ("ok" for 2xx)
    upResults,      \* the results array of a batch response
    pyIn,           \* response.data.prediction of the classifier: status, confidence
    pyOut,          \* the MlPredictionResult made of it
    recs,           \* the recommendations collection: _id -> document
    clock,          \* Date.now() as the recommendations service reads it
    rq,             \* the request slots of the recommendations controller
    rated,          \* ids of the recommendations on which feedback was saved
    aiService       \* the class of the generator provided as 'AI_SERVICE'

authVars == <<users, issued, req, loggedOut, deactivated>>
mlVars == <<mlN, mlPc, mlAttempt, mlSent, mlLast, mlFirstOk, mlUnlinks, mlResult>>
upVars == <<upPc, upKind, upFiles, task, upStatus, upResults>>
pyVars == <<pyIn, pyOut>>
recVars == <<recs, clock, rq, rated, aiService>>
vars == <<users, issued, req, loggedOut, deactivated,
          mlN, mlPc, mlAttempt, mlSent, mlLast, mlFirstOk, mlUnlinks, mlResult,
          upPc, upKind, upFiles, task, upStatus, upResults, pyIn, pyOut,
          recs, clock, rq, rated, aiService>>

\* what the handlers of one part of the program leave alone
otherThanAuth == <<mlVars, upVars, pyVars, recVars>>
otherThanMl == <<authVars, upVars, pyVars, recVars>>
otherThanUp == <<authVars, mlVars, pyVars, recVars>>
otherThanPy == <<authVars, mlVars, upVars, recVars>>
otherThanRec == <<authVars, mlVars, upVars, pyVars>>

\* ------------------------------------------------------------- documents
NewUser(name, email, pw, roles, active) ==
    [name |-> name, email |-> NormEmail(email), password |-> HashPassword(pw),
     roles |-> roles, isActive |-> active, refreshToken |-> NullHash]

Existing == DOMAIN users

\* a lookup that matches the address as typed only
FindByEmailAsTyped(e) == {u \in Existing : users[u].email = e}

\* userModel.findOne({ email }): the query is cast with the schema setters
FindByEmail(e) == {u \in Existing : users[u].email = NormEmail(e)}

\* the unique index on email
EmailFree(e, self) == \A u \in Existing \ {self} : users[u].email # e

\* ---------------------------------------------------------- request slots
NoEmail == <<"", 0>>
NoDto == [name |-> "", email |-> NoEmail, password |-> "", hasEmail |-> FALSE,
          hasRoles |-> FALSE, roles |-> {}, hasActive |-> FALSE, isActive |-> FALSE]
NoDoc == [email |-> NoEmail, roles |-> {}, isActive |-> FALSE]

Idle == [kind |-> "none", pc |-> "idle", status |-> "", msg |-> "", uid |-> 0,
         dto |-> NoDto, doc |-> NoDoc, rtok |-> NoTok, atok |-> NoAcc,
         hasRequired |-> FALSE, required |-> {}]

\* a handler is running in slot r (pc "done": its response is going out)
InFlight(r) == req[r].pc \notin {"idle", "done"}
\* a new request takes the first free slot
Free(r) == req[r].pc = "idle" /\ \A s \in 1..(r - 1) : req[s].pc # "idle"

\* the handler of slot r returns or throws: the response carries the HTTP
\* error kind ("ok" for 2xx) and the message
Reply(r, q, status, msg) ==
    req' = [req EXCEPT ![r] = [q EXCEPT !.pc = "done", !.status = status, !.msg = msg]]

\* the handler of slot r suspends at its next await
Continue(r, q) == req' = [req EXCEPT ![r] = q]

\* the response of slot r has left
Respond(r) ==
    /\ req[r].pc = "done"
    /\ req' = [req EXCEPT ![r] = Idle]
    /\ UNCHANGED <<users, issued, loggedOut, deactivated, otherThanAuth>>

Snapshot(u) == [email |-> users[u].email, roles |-> users[u].roles,
                isActive |-> users[u].isActive]

IssuingKinds == {"register", "login", "refresh"}
\* token pairs still to be signed by requests in flight
Pending == Cardinality({r \in Reqs : InFlight(r) /\ req[r].kind \in IssuingKinds})
MayIssue == Len(issued) + Pending < MaxIssue

IssuedRefresh == {[sub |-> issued[n].sub, n |-> n] : n \in 1..Len(issued)}
IssuedAccess == {issued[n] : n \in 1..Len(issued)}

\* ------------------------------------------------------------------- Init
AuthInit ==
    /\ users = [u \in {} |-> 0]
    /\ issued = <<>>
    /\ req = [r \in Reqs |-> Idle]
    /\ loggedOut = {}
    /\ deactivated = {}

\* ------------------------------------------------- AuthService.register
\* the ValidationPipe (whitelist, forbidNonWhitelisted) on RegisterDto:
\* name, email and password are its only properties
RegisterWhitelisted(body) == ~body.hasRoles /\ ~body.hasActive

\* findOne({ email }) and the ConflictException
RegisterStart(r, name, email, pw, body) ==
    /\ Free(r)
    /\ MayIssue
    /\ Cardinality(Existing) < MaxUsers
    /\ LET q == [Idle EXCEPT !.kind = "register",
                     !.dto = [body EXCEPT !.name = name, !.email = email,
                                          !.password = pw]]
       IN  IF ~RegisterWhitelisted(body)
           THEN Reply(r, q, "BadRequest", "property should not exist")
           ELSE IF FindByEmail(email) # {}
           THEN Reply(r, q, "Conflict", "Email already registered")
           ELSE Continue(r, [q EXCEPT !.pc = "save"])
    /\ UNCHANGED <<users, issued, loggedOut, deactivated, otherThanAuth>>

\* a registration that hands out the manager role
RegisterDocManager(dto) == NewUser(dto.name, dto.email, dto.password, {FARMER, MANAGER}, TRUE)

\* the document register builds: roles [FARMER], isActive true
RegisterDoc(dto) == NewUser(dto.name, dto.email, dto.password, {FARMER}, TRUE)

\* newUser.save(): the unique index rejects a document whose email another
\* document has, and save rethrows the driver's duplicate-key error
RegisterSave(r) ==
    /\ req[r].kind = "register"
    /\ req[r].pc = "save"
    /\ LET q == req[r]
           id == Cardinality(Existing) + 1
           doc == RegisterDoc(q.dto)
       IN  IF ~EmailFree(doc.email, 0)
           THEN /\ Reply(r, q, "InternalError", "E11000 duplicate key error")
                /\ users' = users
           ELSE /\ id \in Ids
                /\ users' = (id :> doc) @@ users
                /\ Continue(r, [q EXCEPT !.pc = "issue", !.uid = id,
                                  !.doc = [email |-> doc.email, roles |-> doc.roles,
                                           isActive |-> doc.isActive]])
    /\ UNCHANGED <<issued, loggedOut, deactivated, otherThanAuth>>

\* ---------------------------------------------------- AuthService.login
\* login without the isActive check
LoginChecksAnyState(u, pw) ==
    IF u = 0 THEN "Invalid credentials"
    ELSE IF ~ComparePassword(pw, users[u].password) THEN "Invalid credentials"
    ELSE "ok"

\* the outcome of the checks of login on the document found (0: none)
LoginChecks(u, pw) ==
    IF u = 0 THEN "Invalid credentials"
    ELSE IF ~users[u].isActive THEN "Account is deactivated"
    ELSE IF ~ComparePassword(pw, users[u].password) THEN "Invalid credentials"
    ELSE "ok"

LoginStart(r, email, pw) ==
    /\ Free(r)
    /\ LET found == FindByEmail(email)
           u == IF found = {} THEN 0 ELSE CHOOSE x \in found : TRUE
           q == [Idle EXCEPT !.kind = "login", !.dto.email = email,
                             !.dto.password = pw, !.uid = u]
           c == LoginChecks(u, pw)
       IN  IF c # "ok"
           THEN Reply(r, q, "Unauthorized", c)
           ELSE MayIssue /\ Continue(r, [q EXCEPT !.pc = "issue", !.doc = Snapshot(u)])
    /\ UNCHANGED <<users, issued, loggedOut, deactivated, otherThanAuth>>

\* ---------------------------------------------- AuthService.refreshToken
\* jwtService.verify with the refresh secret: signature and expiry
JwtVerify(t, expired) == t \in IssuedRefresh /\ ~expired

RefreshChecks(t, expired) ==
    /\ JwtVerify(t, expired)
    /\ t.sub \in Existing
    /\ users[t.sub].isActive
    /\ users[t.sub].refreshToken # NullHash
    /\ CompareToken(t, users[t.sub].refreshToken)

RefreshStart(r, t, expired) ==
    /\ Free(r)
    /\ LET q == [Idle EXCEPT !.kind = "refresh", !.rtok = t, !.uid = t.sub]
       IN  IF RefreshChecks(t, expired)
           THEN MayIssue /\ Continue(r, [q EXCEPT !.pc = "issue", !.doc = Snapshot(t.sub)])
           ELSE Reply(r, q, "Unauthorized", "Invalid refresh token")
    /\ UNCHANGED <<users, issued, loggedOut, deactivated, otherThanAuth>>

\* ---------------------------------------- AuthService.generateAuthResponse
\* findByIdAndUpdate(user._id, { refreshToken: hashedRefreshToken })
StoreRefreshHash(u, h) == [users EXCEPT ![u].refreshToken = h]

\* signs the token pair from the document the caller holds and stores the
\* hash of the refresh token
IssueTokens(r) ==
    /\ req[r].kind \in IssuingKinds
    /\ req[r].pc = "issue"
    /\ LET q == req[r]
           a == [sub |-> q.uid, roles |-> q.doc.roles]
           t == [sub |-> q.uid, n |-> Len(issued) + 1]
       IN  /\ issued' = Append(issued, a)
           /\ users' = StoreRefreshHash(q.uid, HashToken(t))
           /\ Reply(r, q, "ok", "")
           /\ loggedOut' = IF q.kind = "login" THEN loggedOut \ {q.uid} ELSE loggedOut
    /\ UNCHANGED <<deactivated, otherThanAuth>>

\* ------------------------------------------------- JwtStrategy.validate
\* passport-jwt has verified signature and expiry; validate re-reads the user
JwtValidate(a, expired) ==
    IF a \notin IssuedAccess \/ expired THEN "Unauthorized"
    ELSE IF a.sub \notin Existing THEN "Unauthorized"
    ELSE IF ~users[a.sub].isActive THEN "Unauthorized"
    ELSE "ok"

\* --------------------------------------------------- AuthService.logout
LogoutStart(r, a, expired) ==
    /\ Free(r)
    /\ LET q == [Idle EXCEPT !.kind = "logout", !.atok = a, !.uid = a.sub]
       IN  IF JwtValidate(a, expired) = "ok"
           THEN Continue(r, [q EXCEPT !.pc = "clear"])
           ELSE Reply(r, q, "Unauthorized", "Unauthorized")
    /\ UNCHANGED <<users, issued, loggedOut, deactivated, otherThanAuth>>

\* a logout that leaves the stored hash in place
ClearRefreshHashKept(u) == users

\* findByIdAndUpdate(userId, { refreshToken: null })
ClearRefreshHash(u) == [users EXCEPT ![u].refreshToken = NullHash]

LogoutClear(r) ==
    /\ req[r].kind = "logout"
    /\ req[r].pc = "clear"
    /\ users' = ClearRefreshHash(req[r].uid)
    /\ loggedOut' = loggedOut \cup {req[r].uid}
    /\ Reply(r, req[r], "ok", "Successfully logged out")
    /\ UNCHANGED <<issued, deactivated, otherThanAuth>>

\* ------------------------------------------------ RolesGuard.canActivate
\* a gate that asks for every required role
CanActivateEvery(hasRequired, required, hasUser, callerRoles) ==
    IF ~hasRequired \/ required = {} THEN "ok"
    ELSE IF ~hasUser THEN "Forbidden"
    ELSE IF \A role \in required : role \in callerRoles THEN "ok"
    ELSE "Forbidden"

\* hasRequired is FALSE when no @Roles metadata is attached to the route;
\* hasUser is FALSE when request.user (or its roles) is missing
CanActivate(hasRequired, required, hasUser, callerRoles) ==
    IF ~hasRequired \/ required = {} THEN "ok"
    ELSE IF ~hasUser THEN "Forbidden"
    ELSE IF \E role \in required : role \in callerRoles THEN "ok"
    ELSE "Forbidden"

\* a validate that takes the caller's roles from the stored user
RequestUserStored(a) == [sub |-> a.sub, roles |-> users[a.sub].roles]

\* what validate returns as request.user: sub and roles are the payload's
RequestUser(a) == [sub |-> a.sub, roles |-> a.roles]

\* a request to a route guarded by JwtAuthGuard and RolesGuard
GuardedRequest(r, a, expired, hasRequired, required) ==
    /\ Free(r)
    /\ LET q == [Idle EXCEPT !.kind = "guarded", !.atok = a, !.uid = a.sub,
                             !.hasRequired = hasRequired, !.required = required]
           v == JwtValidate(a, expired)
           g == CanActivate(hasRequired, required, TRUE, RequestUser(a).roles)
       IN  IF v # "ok" THEN Reply(r, q, v, "Unauthorized")
           ELSE Reply(r, q, g, IF g = "ok" THEN "" ELSE "Access denied")
    /\ UNCHANGED <<users, issued, loggedOut, deactivated, otherThanAuth>>

\* ------------------------------------------- HealthController.getHealth
\* the status each of the two service health checks can report (a check
\* that throws is caught and counted as 'unhealthy')
ServiceStatuses == {"healthy", "degraded", "unhealthy"}

OverallStatus(mlHealth, recommendationsHealth) ==
    IF mlHealth = "healthy" /\ recommendationsHealth = "healthy" THEN "healthy"
    ELSE IF mlHealth = "degraded" \/ recommendationsHealth = "degraded" THEN "degraded"
    ELSE "unhealthy"

\* GET /health sits behind JwtAuthGuard and RolesGuard with @Roles(ADMIN);
\* a caller without a token presents NoAcc; msg carries the body's status
GetHealth(r, a, expired, mlHealth, recommendationsHealth) ==
    /\ Free(r)
    /\ LET q == [Idle EXCEPT !.kind = "health", !.atok = a, !.uid = a.sub,
                             !.hasRequired = TRUE, !.required = {ADMIN}]
           v == JwtValidate(a, expired)
           g == CanActivate(TRUE, {ADMIN}, TRUE, RequestUser(a).roles)
       IN  IF v # "ok" THEN Reply(r, q, v, "Unauthorized")
           ELSE IF g # "ok" THEN Reply(r, q, g, "Access denied")
           ELSE Reply(r, q, "ok", OverallStatus(mlHealth, recommendationsHealth))
    /\ UNCHANGED <<users, issued, loggedOut, deactivated, otherThanAuth>>

\* --------------------------------------------------- UsersService.create
CreateStart(r, name, email, pw, body) ==
    /\ Free(r)
    /\ Cardinality(Existing) < MaxUsers
    /\ LET q == [Idle EXCEPT !.kind = "create",
                     !.dto = [body EXCEPT !.name = name, !.email = email,
                                          !.password = pw]]
       IN  IF FindByEmail(email) # {}
           THEN Reply(r, q, "Conflict", "Email already registered")
           ELSE Continue(r, [q EXCEPT !.pc = "save"])
    /\ UNCHANGED <<users, issued, loggedOut, deactivated, otherThanAuth>>

\* new this.userModel({...userData, email, password}): the schema defaults
\* fill the fields the body left undefined
CreateDoc(dto) ==
    NewUser(dto.name, dto.email, dto.password,
            IF dto.hasRoles THEN dto.roles ELSE {FARMER},
            IF dto.hasActive THEN dto.isActive ELSE TRUE)

CreateSave(r) ==
    /\ req[r].kind = "create"
    /\ req[r].pc = "save"
    /\ LET q == req[r]
           id == Cardinality(Existing) + 1
           doc == CreateDoc(q.dto)
       IN  IF ~EmailFree(doc.email, 0)
           THEN /\ Reply(r, q, "InternalError", "E11000 duplicate key error")
                /\ users' = users
           ELSE /\ id \in Ids
                /\ users' = (id :> doc) @@ users
                /\ Reply(r, [q EXCEPT !.uid = id], "ok", "")
    /\ UNCHANGED <<issued, loggedOut, deactivated, otherThanAuth>>

\* --------------------------------------------------- UsersService.update
UpdateStart(r, id, body) ==
    /\ Free(r)
    /\ LET q == [Idle EXCEPT !.kind = "update", !.uid = id, !.dto = body]
       IN  IF id \notin Existing THEN Reply(r, q, "NotFound", "User not found")
           ELSE IF body.hasEmail /\ body.email # users[id].email
           THEN Continue(r, [q EXCEPT !.pc = "email", !.doc = Snapshot(id)])
           ELSE Continue(r, [q EXCEPT !.pc = "save", !.doc = Snapshot(id)])
    /\ UNCHANGED <<users, issued, loggedOut, deactivated, otherThanAuth>>

\* findOne({ email: updateUserDto.email })
UpdateCheckEmail(r) ==
    /\ req[r].kind = "update"
    /\ req[r].pc = "email"
    /\ IF FindByEmail(req[r].dto.email) # {}
       THEN Reply(r, req[r], "Conflict", "Email already in use")
       ELSE Continue(r, [req[r] EXCEPT !.pc = "save"])
    /\ UNCHANGED <<users, issued, loggedOut, deactivated, otherThanAuth>>

\* Object.assign(user, updateUserDto)
Assigned(doc, dto) ==
    [email |-> IF dto.hasEmail THEN NormEmail(dto.email) ELSE doc.email,
     roles |-> IF dto.hasRoles THEN dto.roles ELSE doc.roles,
     isActive |-> IF dto.hasActive THEN dto.isActive ELSE doc.isActive]

\* user.save(): the paths whose value differs from the loaded document
\* are written
SaveModified(u, old, new) ==
    [users EXCEPT ![u] =
        [@ EXCEPT !.email = IF new.email # old.email THEN new.email ELSE @,
                  !.roles = IF new.roles # old.roles THEN new.roles ELSE @,
                  !.isActive = IF new.isActive # old.isActive THEN new.isActive ELSE @]]

UpdateSave(r) ==
    /\ req[r].kind = "update"
    /\ req[r].pc = "save"
    /\ LET q == req[r]
           new == Assigned(q.doc, q.dto)
       IN  IF new.email # q.doc.email /\ ~EmailFree(new.email, q.uid)
           THEN /\ Reply(r, q, "InternalError", "E11000 duplicate key error")
                /\ users' = users
           ELSE /\ users' = SaveModified(q.uid, q.doc, new)
                /\ Reply(r, q, "ok", "")
    /\ UNCHANGED <<issued, loggedOut, deactivated, otherThanAuth>>

\* ------------------------- UsersService.remove / deactivate / activate
SetActiveStart(r, kind, id) ==
    /\ Free(r)
    /\ LET q == [Idle EXCEPT !.kind = kind, !.uid = id]
       IN  IF id \notin Existing THEN Reply(r, q, "NotFound", "User not found")
           ELSE Continue(r, [q EXCEPT !.pc = "save", !.doc = Snapshot(id)])
    /\ UNCHANGED <<users, issued, loggedOut, deactivated, otherThanAuth>>

SetActiveSave(r) ==
    /\ req[r].kind \in {"remove", "deactivate", "activate"}
    /\ req[r].pc = "save"
    /\ LET q == req[r]
           new == [q.doc EXCEPT !.isActive = (q.kind = "activate")]
       IN  /\ users' = SaveModified(q.uid, q.doc, new)
           /\ Reply(r, q, "ok", "")
           /\ deactivated' = IF q.kind = "activate" THEN deactivated \ {q.uid}
                             ELSE deactivated \cup {q.uid}
    /\ UNCHANGED <<issued, loggedOut, otherThanAuth>>

\* ------------------------------------------------------------ the requests
\* the optional fields admin request bodies carry: at most one per request
RolesField == {[NoDto EXCEPT !.hasRoles = TRUE, !.roles = ro] : ro \in RoleInputs}
ActiveField == {[NoDto EXCEPT !.hasActive = TRUE, !.isActive = ac] : ac \in BOOLEAN}
EmailField == {[NoDto EXCEPT !.hasEmail = TRUE, !.email = e] : e \in RawEmails}
SeqCreateBodies == {NoDto} \cup ActiveField
RolesCreateBodies == {NoDto} \cup RolesField

ForgedRefresh == [sub |-> 1, n |-> 0]
ForgedAccess == [sub |-> 1, roles |-> {ADMIN, FARMER}]

\* a response on its way out is delivered before the next handler step
Quiet == \A s \in Reqs : req[s].pc # "done"

\* no other request is in flight
Solo(r) == \A s \in Reqs \ {r} : ~InFlight(s)

\* =========================================================================
\* The classifier proxy: MlModelService
\* =========================================================================
DefaultMaxRetries == 3

\* ml.maxRetries: parseInt(process.env.ML_API_MAX_RETRIES, 10) || 3
\* (env = 0 stands for every falsy value: unset, not a number, 0)
ConfigMaxRetries(env) == IF env = 0 THEN DefaultMaxRetries ELSE env

\* what one POST /predict can come to
AttemptOutcomes == {"ok", "network", "non2xx", "successFalse", "noPrediction"}

\* response.data.success && response.data.prediction
AttemptSucceeds(o) == o = "ok"

MlIdle ==
    /\ mlPc = "idle"
    /\ mlAttempt = 0
    /\ mlSent = 0
    /\ mlLast = "none"
    /\ mlFirstOk = 0
    /\ mlUnlinks = 0
    /\ mlResult = "none"

\* MlModelService.classifyImage up to the first request: the loop of
\* makeRequestWithRetry starts with attempt = 1
ClassifyStart ==
    /\ mlPc \in {"idle", "done"}
    /\ mlPc' = IF 1 <= mlN THEN "request" ELSE "undefined"
    /\ mlAttempt' = 1
    /\ mlSent' = 0
    /\ mlLast' = "none"
    /\ mlFirstOk' = 0
    /\ mlUnlinks' = 0
    /\ mlResult' = "none"
    /\ UNCHANGED <<mlN, otherThanMl>>

\* a loop that gives up one attempt early
AfterFailureEarly(attempt, retries) == IF attempt + 1 >= retries THEN "failed" ELSE "backoff"

\* the catch block of the loop: rethrow on the last attempt, else back off
AfterFailure(attempt, retries) == IF attempt = retries THEN "failed" ELSE "backoff"

\* one pass of the loop body: httpService.post and the test of its response
SendAttempt(o) ==
    /\ mlPc = "request"
    /\ mlAttempt <= mlN
    /\ mlSent' = mlSent + 1
    /\ mlLast' = o
    /\ IF AttemptSucceeds(o)
       THEN /\ mlPc' = "succeeded"
            /\ mlFirstOk' = mlAttempt
       ELSE /\ mlPc' = AfterFailure(mlAttempt, mlN)
            /\ mlFirstOk' = mlFirstOk
    /\ UNCHANGED <<mlN, mlAttempt, mlUnlinks, mlResult, otherThanMl>>

\* the delay Math.pow(2, attempt) * 1000 has passed; attempt++
Backoff ==
    /\ mlPc = "backoff"
    /\ mlAttempt' = mlAttempt + 1
    /\ mlPc' = "request"
    /\ UNCHANGED <<mlN, mlSent, mlLast, mlFirstOk, mlUnlinks, mlResult, otherThanMl>>

\* classifyImage after makeRequestWithRetry returned: cleanupFile, return
ClassifyReturn ==
    /\ mlPc = "succeeded"
    /\ mlUnlinks' = mlUnlinks + 1
    /\ mlResult' = "prediction"
    /\ mlPc' = "done"
    /\ UNCHANGED <<mlN, mlAttempt, mlSent, mlLast, mlFirstOk, otherThanMl>>

\* the loop ran no pass (retries < 1) and makeRequestWithRetry returned
\* undefined: cleanupFile, then the assignment to result.processing_time_ms
\* throws into the catch block
ClassifyNoResult ==
    /\ mlPc = "undefined"
    /\ mlUnlinks' = mlUnlinks + 1
    /\ mlPc' = "failed"
    /\ UNCHANGED <<mlN, mlAttempt, mlSent, mlLast, mlFirstOk, mlResult, otherThanMl>>

\* the catch block of classifyImage: cleanupFile, throw HttpException(500)
ClassifyThrow ==
    /\ mlPc = "failed"
    /\ mlUnlinks' = mlUnlinks + 1
    /\ mlResult' = "InternalServerError"
    /\ mlPc' = "done"
    /\ UNCHANGED <<mlN, mlAttempt, mlSent, mlLast, mlFirstOk, otherThanMl>>

\* =========================================================================
\* Uploads: ImageClassificationService
\* =========================================================================
\* upload.maxFileSize: parseInt(process.env.MAX_FILE_SIZE, 10) || 16 * 1024 * 1024
DefaultMaxFileSize == 16777216
MaxFileSize == DefaultMaxFileSize

\* upload.allowedMimeTypes
AllowedMimeTypes == {"image/jpeg", "image/png", "image/gif", "image/bmp",
                     "image/tiff", "image/webp"}

\* the files handed to the service: Express.Multer.File objects whose
\* content is on disk at file.path
Mimes == {"image/webp", "application/pdf"}
Sizes == {1, MaxFileSize, MaxFileSize + 1}
Files == [mime : Mimes, size : Sizes]

RECURSIVE SeqsUpTo(_, _)
SeqsUpTo(S, n) ==
    IF n = 0 THEN {<<>>}
    ELSE LET shorter == SeqsUpTo(S, n - 1)
         IN  shorter \cup {Append(q, x) : q \in {z \in shorter : Len(z) = n - 1}, x \in S}

\* the files array of a batch request
Batches == SeqsUpTo(Files, MaxBatch)

\* a validator that turns away a file of exactly the maximum size
ValidateFileBelowMax(file) ==
    IF file.mime \notin AllowedMimeTypes THEN "Invalid file type"
    ELSE IF file.size >= MaxFileSize THEN "File too large"
    ELSE "ok"

\* ImageClassificationService.validateFile (the file and its path are there)
ValidateFile(file) ==
    IF file.mime \notin AllowedMimeTypes THEN "Invalid file type"
    ELSE IF file.size > MaxFileSize THEN "File too large"
    ELSE "ok"

\* the call MlModelService.classifyImage(file.path) of one file, not started
NoTask == [pc |-> "wait", attempt |-> 0, sent |-> 0, lastOk |-> FALSE,
           unlinks |-> 0, onDisk |-> TRUE, out |-> "none"]

\* MlModelService.classifyImage up to the first request
StartTask(t) == [t EXCEPT !.pc = IF 1 <= mlN THEN "request" ELSE "undefined",
                          !.attempt = 1]

\* MlModelService.cleanupFile: unlink; an error of unlink is logged only
CleanupFile(t) == [t EXCEPT !.unlinks = @ + 1, !.onDisk = FALSE]

UpIdle ==
    /\ upPc = "idle"
    /\ upKind = "none"
    /\ upFiles = <<>>
    /\ task = <<>>
    /\ upStatus = ""
    /\ upResults = <<>>

\* ImageClassificationService.classifyImage: validateFile, then the call
\* of MlModelService.classifyImage
UploadSingle(file) ==
    /\ upPc = "idle"
    /\ upKind' = "single"
    /\ upFiles' = <<file>>
    /\ upResults' = <<>>
    /\ IF ValidateFile(file) # "ok"
       THEN /\ upPc' = "done"
            /\ upStatus' = "BadRequest"
            /\ task' = <<NoTask>>
       ELSE /\ upPc' = "running"
            /\ upStatus' = ""
            /\ task' = <<StartTask(NoTask)>>
    /\ UNCHANGED otherThanUp

\* ImageClassificationService.classifyImagesBatch: the length test,
\* files.forEach(validateFile), then MlModelService.classifyImagesBatch,
\* whose map starts the call for every path
UploadBatch(files) ==
    /\ upPc = "idle"
    /\ upKind' = "batch"
    /\ upFiles' = files
    /\ upResults' = <<>>
    /\ IF Len(files) = 0 \/ \E i \in 1..Len(files) : ValidateFile(files[i]) # "ok"
       THEN /\ upPc' = "done"
            /\ upStatus' = "BadRequest"
            /\ task' = [i \in 1..Len(files) |-> NoTask]
       ELSE /\ upPc' = "running"
            /\ upStatus' = ""
            /\ task' = [i \in 1..Len(files) |-> StartTask(NoTask)]
    /\ UNCHANGED otherThanUp

\* one pass of the loop of makeRequestWithRetry for file i
TaskSend(i, o) ==
    /\ upPc = "running"
    /\ task[i].pc = "request"
    /\ task[i].attempt <= mlN
    /\ task' = [task EXCEPT ![i] =
                  [@ EXCEPT !.sent = @ + 1,
                            !.lastOk = AttemptSucceeds(o),
                            !.pc = IF AttemptSucceeds(o) THEN "succeeded"
                                   ELSE AfterFailure(task[i].attempt, mlN)]]
    /\ UNCHANGED <<upPc, upKind, upFiles, upStatus, upResults, otherThanUp>>

\* the delay of file i has passed; attempt++
TaskBackoff(i) ==
    /\ upPc = "running"
    /\ task[i].pc = "backoff"
    /\ task' = [task EXCEPT ![i] = [@ EXCEPT !.attempt = @ + 1, !.pc = "request"]]
    /\ UNCHANGED <<upPc, upKind, upFiles, upStatus, upResults, otherThanUp>>

\* MlModelService.classifyImage of file i after the retry loop returned:
\* cleanupFile, return result
TaskReturn(i) ==
    /\ upPc = "running"
    /\ task[i].pc = "succeeded"
    /\ task' = [task EXCEPT ![i] = [CleanupFile(@) EXCEPT !.out = "result", !.pc = "done"]]
    /\ UNCHANGED <<upPc, upKind, upFiles, upStatus, upResults, otherThanUp>>

\* the loop of file i ran no pass: cleanupFile, then the assignment to
\* result.processing_time_ms throws into the catch block
TaskNoResult(i) ==
    /\ upPc = "running"
    /\ task[i].pc = "undefined"
    /\ task' = [task EXCEPT ![i] = [CleanupFile(@) EXCEPT !.pc = "failed"]]
    /\ UNCHANGED <<upPc, upKind, upFiles, upStatus, upResults, otherThanUp>>

\* the catch block of MlModelService.classifyImage of file i: cleanupFile,
\* throw HttpException(500)
TaskThrow(i) ==
    /\ upPc = "running"
    /\ task[i].pc = "failed"
    /\ task' = [task EXCEPT ![i] = [CleanupFile(@) EXCEPT !.out = "error", !.pc = "done"]]
    /\ UNCHANGED <<upPc, upKind, upFiles, upStatus, upResults, otherThanUp>>

\* ImageClassificationService.classifyImage returns the result or rethrows
SingleRespond ==
    /\ upPc = "running"
    /\ upKind = "single"
    /\ task[1].pc = "done"
    /\ upStatus' = IF task[1].out = "result" THEN "ok" ELSE "InternalServerError"
    /\ upPc' = "done"
    /\ UNCHANGED <<upKind, upFiles, task, upResults, otherThanUp>>

\* a batch in which one failure marks every entry
BatchEntryAllOrNone(i) ==
    [file |-> i, result |-> \A j \in 1..Len(task) : task[j].out = "result",
     error |-> \E j \in 1..Len(task) : task[j].out = "error"]

\* the entry of file i: the catch of the mapped function turned a throw into
\* { error }, and the service puts files[index].originalname on it
BatchEntry(i) == [file |-> i, result |-> task[i].out = "result",
                  error |-> task[i].out = "error"]

\* Promise.allSettled has settled: results.map in input order, and the
\* response of classifyImagesBatch
BatchCollect ==
    /\ upPc = "running"
    /\ upKind = "batch"
    /\ \A i \in 1..Len(task) : task[i].pc = "done"
    /\ upResults' = [i \in 1..Len(task) |-> BatchEntry(i)]
    /\ upStatus' = "ok"
    /\ upPc' = "done"
    /\ UNCHANGED <<upKind, upFiles, task, otherThanUp>>

\* the response has left; the next request
UploadReset ==
    /\ upPc = "done"
    /\ upPc' = "idle"
    /\ upKind' = "none"
    /\ upFiles' = <<>>
    /\ task' = <<>>
    /\ upStatus' = ""
    /\ upResults' = <<>>
    /\ UNCHANGED otherThanUp

\* =========================================================================
\* MlModelService.transformPythonResponse
\* =========================================================================
\* prediction.status as the classifier may report it
Statuses == {"healthy", "unhealthy", "diseased"}
\* prediction.confidence, in units of 1/ConfidenceSteps
Confidences == 0..ConfidenceSteps
PyResponses == [status : Statuses, confidence : Confidences]

NoPrediction == [predicted_class |-> "", confidence |-> 0,
                 probabilities |-> [healthy |-> 0, angular_leaf_spot |-> 0]]

TransformPythonResponse(prediction) ==
    [predicted_class |-> IF prediction.status = "healthy" THEN "healthy"
                         ELSE "angular_leaf_spot",
     confidence |-> prediction.confidence,
     probabilities |->
        [healthy |-> IF prediction.status = "healthy" THEN prediction.confidence
                     ELSE ConfidenceSteps - prediction.confidence,
         angular_leaf_spot |-> IF prediction.status = "unhealthy" THEN prediction.confidence
                               ELSE ConfidenceSteps - prediction.confidence]]

PyIdle == pyIn \in PyResponses /\ pyOut = NoPrediction

\* a response with success and prediction arrives
Receive(prediction) ==
    /\ pyOut # NoPrediction
    /\ pyIn' = prediction
    /\ pyOut' = NoPrediction
    /\ UNCHANGED otherThanPy

\* return this.transformPythonResponse(response.data)
Transform ==
    /\ pyOut = NoPrediction
    /\ pyOut' = TransformPythonResponse(pyIn)
    /\ UNCHANGED <<pyIn, otherThanPy>>

\* =========================================================================
\* RecommendationsService
\* =========================================================================
\* userRating as the schema fills it in when a document is made without one
DefaultUserRating == 0
\* a userRating that is missing or null in a stored document
NoRating == -1

SessionIds == {"sess_1", "sess_2"}
\* bodies of POST /recommendations/generate that pass validation
GenerateDtos == [classification : {"healthy", "angular_leaf_spot"},
                 confidence : {ConfidenceSteps},
                 sessionId : SessionIds]
\* bodies of PATCH /recommendations/:id/feedback that pass validation;
\* feedback "" stands for a body with no feedback text, and id 0 for an :id
\* that cannot be cast to an ObjectId
FeedbackDtos == [recommendationId : 0..MaxRecs,
                 rating : {1, 4, 5},
                 feedback : {"", "helpful", "unclear"}]
\* queries of GET /recommendations; "" stands for a filter that is not given
ListQueries == [sessionId : SessionIds \cup {""}, classification : {"", "healthy"},
                limit : 1..MaxLimit, skip : 0..MaxSkip]

\* --- the generators that can be provided as 'AI_SERVICE'
\* what a generator call rejects with
GeneratorError == [message |-> "error.message"]

\* classification.toLowerCase().includes('healthy'), for the labels
\* 'healthy', 'Healthy', 'unhealthy' and 'angular_leaf_spot'
IsHealthy(classification) == classification \in {"healthy", "Healthy", "unhealthy"}

\* MockOpenaiService: the content made from templates; of the prevention
\* measures the content keeps the set of their priorities; numbers are in
\* units of 1/ConfidenceSteps
GenerateMockRecommendation(classification, confidence) ==
    IF IsHealthy(classification)
    THEN [disease |-> "Healthy Plant",
          confidence |-> IF confidence + ConfidenceSteps \div 20 < ConfidenceSteps
                         THEN confidence + ConfidenceSteps \div 20 ELSE ConfidenceSteps,
          severity |-> "mild",
          priorities |-> {"high", "medium"},
          sourceReliability |-> (9 * ConfidenceSteps) \div 10]
    ELSE [disease |-> "Angular Leaf Spot",
          confidence |-> IF confidence + ConfidenceSteps \div 10 < ConfidenceSteps
                         THEN confidence + ConfidenceSteps \div 10 ELSE ConfidenceSteps,
          severity |-> IF 5 * confidence > 4 * ConfidenceSteps THEN "moderate"
                       ELSE IF 5 * confidence > 3 * ConfidenceSteps THEN "mild"
                       ELSE "severe",
          priorities |-> {"high", "medium", "low"},
          sourceReliability |-> (17 * ConfidenceSteps) \div 20]

\* OpenaiService: the parsed JSON of a completion; disease "" and severity ""
\* stand for a response without the field (or without immediateActions),
\* confidence 0 and sourceReliability 0 for a missing or zero number
ExternalResponses ==
    [disease : {"", "Angular Leaf Spot"},
     confidence : {-1, 0, ConfidenceSteps \div 2, 2 * ConfidenceSteps},
     severity : {"", "mild", "moderate", "severe", "critical"},
     priorities : {{"high", "low"}, {"urgent"}},
     sourceReliability : {0, ConfidenceSteps \div 2, 2 * ConfidenceSteps}]

ValidateAndEnhanceResponse(response, confidence) ==
    IF response.disease = "" \/ response.severity = ""
    THEN GeneratorError
    ELSE [disease |-> response.disease,
          confidence |-> LET own == IF response.confidence # 0 THEN response.confidence
                                    ELSE confidence
                         IN IF confidence < own THEN confidence ELSE own,
          severity |-> IF response.severity \in {"mild", "moderate", "severe"}
                       THEN response.severity
                       ELSE IF 5 * confidence > 4 * ConfidenceSteps THEN "moderate"
                       ELSE "mild",
          priorities |-> response.priorities,
          sourceReliability |-> IF response.sourceReliability # 0
                                THEN response.sourceReliability
                                ELSE (17 * ConfidenceSteps) \div 20]

\* new this.recommendationModel({...}) with the schema defaults
NewRecommendation(dto, content, at) ==
    [sessionId |-> dto.sessionId,
     imageClassification |-> dto.classification,
     classificationConfidence |-> dto.confidence,
     content |-> content,
     generatedBy |-> aiService,
     promptVersion |-> "1.0.0",
     userRating |-> DefaultUserRating,
     userFeedback |-> "",
     createdAt |-> at,
     updatedAt |-> at]

RecIdle == [pc |-> "idle", kind |-> "", dto |-> <<>>, before |-> <<>>,
            content |-> [disease |-> ""],
            external |-> [disease |-> "", confidence |-> 0, severity |-> "",
                          priorities |-> {}, sourceReliability |-> 0],
            doc |-> <<>>, at |-> 0, status |-> "", msg |-> "", out |-> <<>>]

RecInit ==
    /\ recs = <<>>
    /\ clock = 0
    /\ rq = [r \in Reqs |-> RecIdle]
    /\ rated = {}
    /\ aiService = "MockOpenaiService"

\* the handler returns or throws: what goes out of slot q
RecReply(q, status, msg, out) ==
    [q EXCEPT !.pc = "done", !.status = status, !.msg = msg, !.out = out]

\* generate calls that have not saved or failed yet
InFlightGenerates == {r \in Reqs : rq[r].pc \in {"generate", "completion", "save"}}

\* no request of the recommendations controller is being served
RecFree == \A s \in Reqs : rq[s].pc = "idle"

\* --- generateRecommendation
GenerateStart(r, dto) ==
    /\ rq[r].pc = "idle"
    /\ Len(recs) + Cardinality(InFlightGenerates) < MaxRecs
    /\ clock + Cardinality(InFlightGenerates) < MaxClock
    /\ rq' = [rq EXCEPT ![r] = [RecIdle EXCEPT !.pc = "generate", !.kind = "generate",
                                               !.dto = dto, !.at = clock,
                                               !.before = recs]]
    /\ UNCHANGED <<recs, clock, rated, aiService, otherThanRec>>

\* await this.aiService.generateRecommendation(...) leaves the try block;
\* the slot keeps the outcome of the generator call in `content`
GeneratorThrewNever(answer) == FALSE

GeneratorThrew(answer) == answer = GeneratorError

GeneratorAnswer(r, answer) ==
    /\ rq[r].pc \in {"generate", "completion"}
    /\ rq' = [rq EXCEPT ![r] =
                IF GeneratorThrew(answer)
                THEN RecReply([@ EXCEPT !.content = answer], "failure", "error.message",
                              [data |-> 0, processingTimeMs |-> clock - @.at])
                ELSE [@ EXCEPT !.pc = "save", !.content = answer]]
    /\ UNCHANGED <<recs, clock, rated, aiService, otherThanRec>>

\* OpenaiService.generateRecommendation: the completion has arrived and is parsed
OpenaiCompletion(r, response) ==
    /\ rq[r].pc = "generate"
    /\ rq' = [rq EXCEPT ![r] = [@ EXCEPT !.pc = "completion", !.external = response]]
    /\ UNCHANGED <<recs, clock, rated, aiService, otherThanRec>>

\* await recommendation.save(), then the success result; a failed save is
\* caught like a failed generator
GenerateSave(r, saved) ==
    /\ rq[r].pc = "save"
    /\ IF saved
       THEN /\ clock' = clock + 1
            /\ recs' = Append(recs, NewRecommendation(rq[r].dto, rq[r].content, clock'))
            /\ rq' = [rq EXCEPT ![r] =
                        RecReply(@, "success", "Recommendation generated successfully",
                                 [data |-> Len(recs'), processingTimeMs |-> clock' - @.at])]
       ELSE /\ rq' = [rq EXCEPT ![r] =
                        RecReply(@, "failure", "error.message",
                                 [data |-> 0, processingTimeMs |-> clock - @.at])]
            /\ UNCHANGED <<recs, clock>>
    /\ UNCHANGED <<rated, aiService, otherThanRec>>

\* --- submitFeedback
\* findById, then the assignments up to the await of save(); an id that
\* cannot be cast makes findById throw, which the catch turns into BadRequest
FeedbackLoadAny(r, dto) ==
    /\ rq[r].pc = "idle"
    /\ clock + Cardinality(InFlightGenerates) < MaxClock
    /\ IF recs # <<>>
       THEN /\ clock' = clock + 1
            /\ rq' = [rq EXCEPT ![r] = [RecIdle EXCEPT !.pc = "loaded", !.kind = "feedback",
                                                       !.dto = [dto EXCEPT !.recommendationId = 1],
                                                       !.at = clock', !.doc = recs[1]]]
       ELSE /\ rq' = [rq EXCEPT ![r] =
                        RecReply([RecIdle EXCEPT !.kind = "feedback", !.dto = dto],
                                 "NotFound", "Recommendation not found", <<>>)]
            /\ UNCHANGED clock
    /\ UNCHANGED <<recs, rated, aiService, otherThanRec>>

FeedbackLoad(r, dto) ==
    /\ rq[r].pc = "idle"
    /\ clock + Cardinality(InFlightGenerates) < MaxClock
    /\ IF dto.recommendationId \in DOMAIN recs
       THEN /\ clock' = clock + 1
            /\ rq' = [rq EXCEPT ![r] = [RecIdle EXCEPT !.pc = "loaded", !.kind = "feedback",
                                                       !.dto = dto, !.at = clock',
                                                       !.doc = recs[dto.recommendationId]]]
       ELSE /\ rq' = [rq EXCEPT ![r] =
                        IF dto.recommendationId = 0
                        THEN RecReply([RecIdle EXCEPT !.kind = "feedback", !.dto = dto],
                                      "BadRequest", "Failed to submit feedback", <<>>)
                        ELSE RecReply([RecIdle EXCEPT !.kind = "feedback", !.dto = dto],
                                      "NotFound", "Recommendation not found", <<>>)]
            /\ UNCHANGED clock
    /\ UNCHANGED <<recs, rated, aiService, otherThanRec>>

\* the document after the assignments of submitFeedback
FeedbackAssignedStamped(doc, dto, at) ==
    [doc EXCEPT !.userRating = dto.rating, !.userFeedback = dto.feedback,
                !.createdAt = at, !.updatedAt = at]

FeedbackAssigned(doc, dto, at) ==
    [doc EXCEPT !.userRating = dto.rating,
                !.userFeedback = IF dto.feedback # "" THEN dto.feedback ELSE @,
                !.updatedAt = at]

\* recommendation.save(): the paths whose value differs from the loaded
\* document are written
SaveDocument(stored, loaded, assigned) ==
    [f \in DOMAIN stored |-> IF assigned[f] # loaded[f] THEN assigned[f] ELSE stored[f]]

FeedbackSave(r, saved) ==
    /\ rq[r].pc = "loaded"
    /\ IF saved
       THEN /\ recs' = [recs EXCEPT ![rq[r].dto.recommendationId] =
                          SaveDocument(@, rq[r].doc,
                                       FeedbackAssigned(rq[r].doc, rq[r].dto, rq[r].at))]
            /\ rated' = rated \cup {rq[r].dto.recommendationId}
            /\ rq' = [rq EXCEPT ![r] = RecReply(@, "ok", "Feedback submitted successfully", <<>>)]
       ELSE /\ rq' = [rq EXCEPT ![r] = RecReply(@, "BadRequest", "Failed to submit feedback", <<>>)]
            /\ UNCHANGED <<recs, rated>>
    /\ UNCHANGED <<clock, aiService, otherThanRec>>

\* --- getRecommendations
\* .sort({ createdAt: -1 }) of the documents in S
RECURSIVE SortedAsc(_)
SortedAsc(S) ==
    IF S = {} THEN <<>>
    ELSE LET first == CHOOSE i \in S : \A j \in S : recs[i].createdAt <= recs[j].createdAt
         IN <<first>> \o SortedAsc(S \ {first})

RECURSIVE SortedDesc(_)
SortedDesc(S) ==
    IF S = {} THEN <<>>
    ELSE LET first == CHOOSE i \in S : \A j \in S : recs[i].createdAt >= recs[j].createdAt
         IN <<first>> \o SortedDesc(S \ {first})

\* Math.ceil(total / limit)
TotalPagesFloor(total, limit) == total \div limit

TotalPages(total, limit) == (total + limit - 1) \div limit

GetRecommendations(r, q) ==
    /\ rq[r].pc = "idle"
    /\ LET matching == {i \in DOMAIN recs :
                            /\ q.sessionId # "" => recs[i].sessionId = q.sessionId
                            /\ q.classification # "" =>
                                    recs[i].imageClassification = q.classification}
           total == Cardinality(matching)
           sorted == SortedDesc(matching)
           last == IF q.skip + q.limit < total THEN q.skip + q.limit ELSE total
       IN rq' = [rq EXCEPT ![r] =
                    RecReply([RecIdle EXCEPT !.kind = "list", !.dto = q], "ok", "",
                             [recommendations |-> SubSeq(sorted, q.skip + 1, last),
                              pagination |->
                                 [total |-> total,
                                  page |-> (q.skip \div q.limit) + 1,
                                  limit |-> q.limit,
                                  totalPages |-> TotalPages(total, q.limit)]])]
    /\ UNCHANGED <<recs, clock, rated, aiService, otherThanRec>>

\* --- getRecommendationById (id 0: an id that cannot be cast to an ObjectId)
GetRecommendationById(r, id) ==
    /\ rq[r].pc = "idle"
    /\ rq' = [rq EXCEPT ![r] =
                IF id \in DOMAIN recs
                THEN RecReply([RecIdle EXCEPT !.kind = "byId"], "ok", "", recs[id])
                ELSE IF id = 0
                THEN RecReply([RecIdle EXCEPT !.kind = "byId"], "BadRequest",
                              "Failed to retrieve recommendation", <<>>)
                ELSE RecReply([RecIdle EXCEPT !.kind = "byId"], "NotFound",
                              "Recommendation not found", <<>>)]
    /\ UNCHANGED <<recs, clock, rated, aiService, otherThanRec>>

\* --- getAnalytics
RECURSIVE SumRatings(_, _)
SumRatings(store, S) ==
    IF S = {} THEN 0
    ELSE LET i == CHOOSE i \in S : TRUE
         IN store[i].userRating + SumRatings(store, S \ {i})

\* $match userRating: { $exists: true, $ne: null }, $group $avg; the average
\* is kept as the sum and the number of the matched ratings, and count 0 is
\* the null of an empty aggregation result
GetAverageRating(store) ==
    LET matched == {i \in DOMAIN store : store[i].userRating # NoRating}
    IN IF matched = {} THEN [sum |-> 0, count |-> 0]
       ELSE [sum |-> SumRatings(store, matched), count |-> Cardinality(matched)]

GetAnalytics(r) ==
    /\ rq[r].pc = "idle"
    /\ rq' = [rq EXCEPT ![r] =
                RecReply([RecIdle EXCEPT !.kind = "analytics"], "ok", "",
                         [totalRecommendations |-> Len(recs),
                          averageRating |-> GetAverageRating(recs)])]
    /\ UNCHANGED <<recs, clock, rated, aiService, otherThanRec>>

\* --- checkHealth
\* a health check of the generator that throws is caught: 'unhealthy'
CheckHealth(r, dbHealthy, openaiHealthy, threw) ==
    /\ rq[r].pc = "idle"
    /\ rq' = [rq EXCEPT ![r] =
                RecReply([RecIdle EXCEPT !.kind = "health"], "ok", "",
                         IF threw
                         THEN [status |-> "unhealthy", database |-> FALSE, openai |-> FALSE]
                         ELSE [status |-> IF dbHealthy /\ openaiHealthy THEN "healthy"
                                          ELSE "degraded",
                               database |-> dbHealthy,
                               openai |-> openaiHealthy])]
    /\ UNCHANGED <<recs, clock, rated, aiService, otherThanRec>>

\* the response goes out and the slot is free again
RecRespond(r) ==
    /\ rq[r].pc = "done"
    /\ rq' = [rq EXCEPT ![r] = RecIdle]
    /\ UNCHANGED <<recs, clock, rated, aiService, otherThanRec>>

\* =========================================================================
\* Specifications
\* =========================================================================
Init ==
    /\ AuthInit
    /\ mlN = DefaultMaxRetries
    /\ MlIdle
    /\ UpIdle
    /\ pyIn = [status |-> "healthy", confidence |-> 0]
    /\ pyOut = NoPrediction
    /\ RecInit

\* sessions and activation; one request at a time: a sequence of whole operations
NextSeq ==
    \E r \in Reqs :
        \/ Quiet /\ Solo(r) /\ \E n \in Names, e \in RawEmails, p \in Passwords : RegisterStart(r, n, e, p, NoDto)
        \/ Quiet /\ Solo(r) /\ RegisterSave(r)
        \/ Quiet /\ Solo(r) /\ \E e \in RawEmails, p \in PasswordGuesses : LoginStart(r, e, p)
        \/ Quiet /\ Solo(r) /\ \E t \in IssuedRefresh \cup {ForgedRefresh}, x \in BOOLEAN : RefreshStart(r, t, x)
        \/ Quiet /\ Solo(r) /\ IssueTokens(r)
        \/ Quiet /\ Solo(r) /\ \E a \in IssuedAccess \cup {ForgedAccess}, x \in BOOLEAN : LogoutStart(r, a, x)
        \/ Quiet /\ Solo(r) /\ LogoutClear(r)
        \/ Quiet /\ Solo(r) /\ \E a \in IssuedAccess \cup {ForgedAccess}, x \in BOOLEAN, h \in BOOLEAN, q \in SUBSET UserRole :
                GuardedRequest(r, a, x, h, IF h THEN q ELSE {})
        \/ Quiet /\ Solo(r) /\ \E n \in Names, e \in RawEmails, p \in Passwords, b \in SeqCreateBodies :
                CreateStart(r, n, e, p, b)
        \/ Quiet /\ Solo(r) /\ CreateSave(r)
        \/ Quiet /\ Solo(r) /\ \E id \in Ids, b \in ActiveField : UpdateStart(r, id, b)
        \/ Quiet /\ Solo(r) /\ UpdateSave(r)
        \/ Quiet /\ Solo(r) /\ \E k \in {"remove", "deactivate", "activate"}, id \in Ids : SetActiveStart(r, k, id)
        \/ Quiet /\ Solo(r) /\ SetActiveSave(r)
        \/ Respond(r)

SpecSeq == Init /\ [][NextSeq]_vars

\* roles; one request at a time
NextRoles ==
    \E r \in Reqs :
        \/ Quiet /\ Solo(r) /\ \E n \in Names, e \in RawEmails, p \in Passwords, b \in RolesCreateBodies :
                RegisterStart(r, n, e, p, b)
        \/ Quiet /\ Solo(r) /\ RegisterSave(r)
        \/ Quiet /\ Solo(r) /\ \E e \in RawEmails, p \in PasswordGuesses : LoginStart(r, e, p)
        \/ Quiet /\ Solo(r) /\ \E t \in IssuedRefresh \cup {ForgedRefresh}, x \in BOOLEAN : RefreshStart(r, t, x)
        \/ Quiet /\ Solo(r) /\ IssueTokens(r)
        \/ Quiet /\ Solo(r) /\ \E a \in IssuedAccess \cup {ForgedAccess}, x \in BOOLEAN, h \in BOOLEAN, q \in SUBSET UserRole :
                GuardedRequest(r, a, x, h, IF h THEN q ELSE {})
        \/ Quiet /\ Solo(r) /\ \E n \in Names, e \in RawEmails, p \in Passwords, b \in RolesCreateBodies :
                CreateStart(r, n, e, p, b)
        \/ Quiet /\ Solo(r) /\ CreateSave(r)
        \/ Quiet /\ Solo(r) /\ \E id \in Ids, b \in RolesField : UpdateStart(r, id, b)
        \/ Quiet /\ Solo(r) /\ UpdateSave(r)
        \/ Respond(r)

SpecRoles == Init /\ [][NextRoles]_vars

\* registrations, logins and guarded requests interleaved, one request at a
\* time, with admin updates of a user's roles and of its active flag and
\* with requests for the health report
NextGuard ==
    \E r \in Reqs :
        \/ Quiet /\ Solo(r) /\ \E n \in Names, e \in RawEmails, p \in Passwords : RegisterStart(r, n, e, p, NoDto)
        \/ Quiet /\ Solo(r) /\ RegisterSave(r)
        \/ Quiet /\ Solo(r) /\ \E e \in RawEmails, p \in PasswordGuesses : LoginStart(r, e, p)
        \/ Quiet /\ Solo(r) /\ IssueTokens(r)
        \/ Quiet /\ Solo(r) /\ \E a \in IssuedAccess \cup {ForgedAccess}, x \in BOOLEAN, h \in BOOLEAN, q \in SUBSET UserRole :
                GuardedRequest(r, a, x, h, IF h THEN q ELSE {})
        \/ Quiet /\ Solo(r) /\ \E a \in IssuedAccess \cup {ForgedAccess, NoAcc}, x \in BOOLEAN, m \in ServiceStatuses, s \in ServiceStatuses :
                GetHealth(r, a, x, m, s)
        \/ Quiet /\ Solo(r) /\ \E id \in Ids, b \in RolesField \cup ActiveField : UpdateStart(r, id, b)
        \/ Quiet /\ Solo(r) /\ UpdateSave(r)
        \/ Respond(r)

SpecGuard == Init /\ [][NextGuard]_vars

\* requests interleave at their suspension points
Next ==
    \E r \in Reqs :
        \/ Quiet /\ \E n \in Names, e \in RawEmails, p \in Passwords : RegisterStart(r, n, e, p, NoDto)
        \/ Quiet /\ RegisterSave(r)
        \/ Quiet /\ \E e \in RawEmails, p \in PasswordGuesses : LoginStart(r, e, p)
        \/ Quiet /\ \E t \in IssuedRefresh \cup {ForgedRefresh}, x \in BOOLEAN : RefreshStart(r, t, x)
        \/ Quiet /\ IssueTokens(r)
        \/ Quiet /\ \E a \in IssuedAccess \cup {ForgedAccess}, x \in BOOLEAN : LogoutStart(r, a, x)
        \/ Quiet /\ LogoutClear(r)
        \/ Quiet /\ \E n \in Names, e \in RawEmails, p \in Passwords, b \in {NoDto} :
                CreateStart(r, n, e, p, b)
        \/ Quiet /\ CreateSave(r)
        \/ Quiet /\ \E id \in Ids, b \in EmailField : UpdateStart(r, id, b)
        \/ Quiet /\ UpdateCheckEmail(r)
        \/ Quiet /\ UpdateSave(r)
        \/ Respond(r)

Spec == Init /\ [][Next]_vars

InitClassify ==
    /\ AuthInit
    /\ \E env \in (-1)..MaxRetriesEnv : mlN = ConfigMaxRetries(env)
    /\ MlIdle
    /\ UpIdle
    /\ pyIn = [status |-> "healthy", confidence |-> 0]
    /\ pyOut = NoPrediction
    /\ RecInit

NextClassify ==
    \/ ClassifyStart
    \/ \E o \in AttemptOutcomes : SendAttempt(o)
    \/ Backoff
    \/ ClassifyReturn
    \/ ClassifyNoResult
    \/ ClassifyThrow

SpecClassify == InitClassify /\ [][NextClassify]_vars

\* uploads: the per-file calls of a batch interleave
NextUpload ==
    \/ \E file \in Files : UploadSingle(file)
    \/ \E files \in Batches : UploadBatch(files)
    \/ \E i \in 1..Len(task), o \in AttemptOutcomes : TaskSend(i, o)
    \/ \E i \in 1..Len(task) : TaskBackoff(i)
    \/ \E i \in 1..Len(task) : TaskReturn(i)
    \/ \E i \in 1..Len(task) : TaskNoResult(i)
    \/ \E i \in 1..Len(task) : TaskThrow(i)
    \/ SingleRespond
    \/ BatchCollect
    \/ UploadReset

SpecUpload == InitClassify /\ [][NextUpload]_vars

\* the normalisation of classifier responses
InitTransform ==
    /\ AuthInit
    /\ mlN = DefaultMaxRetries
    /\ MlIdle
    /\ UpIdle
    /\ PyIdle
    /\ RecInit

NextTransform ==
    \/ \E prediction \in PyResponses : Receive(prediction)
    \/ Transform

SpecTransform == InitTransform /\ [][NextTransform]_vars

\* recommendations; one request at a time: a sequence of whole operations
NextRec ==
    \E r \in Reqs :
        \/ RecFree /\ \E dto \in GenerateDtos : GenerateStart(r, dto)
        \/ /\ rq[r].pc = "generate"
           /\ \E answer \in {GenerateMockRecommendation(rq[r].dto.classification,
                                                        rq[r].dto.confidence),
                              GeneratorError} : GeneratorAnswer(r, answer)
        \/ \E saved \in BOOLEAN : GenerateSave(r, saved)
        \/ RecFree /\ \E dto \in FeedbackDtos : FeedbackLoad(r, dto)
        \/ \E saved \in BOOLEAN : FeedbackSave(r, saved)
        \/ RecFree /\ \E q \in {x \in ListQueries : x.limit <= 2 /\ x.skip <= 1} : GetRecommendations(r, q)
        \/ RecFree /\ \E id \in 0..MaxRecs : GetRecommendationById(r, id)
        \/ RecFree /\ GetAnalytics(r)
        \/ RecFree /\ \E db \in BOOLEAN, ai \in BOOLEAN, threw \in BOOLEAN : CheckHealth(r, db, ai, threw)
        \/ RecRespond(r)

SpecRec == Init /\ [][NextRec]_vars

\* feedback submissions and generate calls interleave at their suspension
\* points; every generate call is for the same session and classification
NextFeedback ==
    \E r \in Reqs :
        \/ \E dto \in {d \in GenerateDtos : d.sessionId = "sess_1" /\ d.classification = "healthy"} :
                GenerateStart(r, dto)
        \/ /\ rq[r].pc = "generate"
           /\ \E answer \in {GenerateMockRecommendation(rq[r].dto.classification,
                                                        rq[r].dto.confidence),
                              GeneratorError} : GeneratorAnswer(r, answer)
        \/ \E saved \in BOOLEAN : GenerateSave(r, saved)
        \/ \E dto \in FeedbackDtos : FeedbackLoad(r, dto)
        \/ \E saved \in BOOLEAN : FeedbackSave(r, saved)
        \/ RecRespond(r)

SpecFeedback == Init /\ [][NextFeedback]_vars

\* lists: the collection holds the records of n successful generate calls
InitList ==
    /\ AuthInit
    /\ mlN = DefaultMaxRetries
    /\ MlIdle
    /\ UpIdle
    /\ pyIn = [status |-> "healthy", confidence |-> 0]
    /\ pyOut = NoPrediction
    /\ aiService = "MockOpenaiService"
    /\ \E n \in 0..MaxList :
            /\ recs = [i \in 1..n |->
                        NewRecommendation(
                            [classification |-> IF i % 3 = 0 THEN "healthy"
                                                ELSE "angular_leaf_spot",
                             confidence |-> ConfidenceSteps,
                             sessionId |-> IF i % 2 = 1 THEN "sess_1" ELSE "sess_2"],
                            GenerateMockRecommendation("angular_leaf_spot", ConfidenceSteps),
                            i)]
            /\ clock = n
    /\ rq = [r \in Reqs |-> RecIdle]
    /\ rated = {}

NextList ==
    \E r \in Reqs :
        \/ RecFree /\ \E q \in ListQueries : GetRecommendations(r, q)
        \/ RecRespond(r)

SpecList == InitList /\ [][NextList]_vars

\* the content of recommendations: either generator is provided, and every
\* generate call finds the collection empty
InitContent ==
    /\ AuthInit
    /\ mlN = DefaultMaxRetries
    /\ MlIdle
    /\ UpIdle
    /\ pyIn = [status |-> "healthy", confidence |-> 0]
    /\ pyOut = NoPrediction
    /\ recs = <<>>
    /\ clock = 0
    /\ rq = [r \in Reqs |-> RecIdle]
    /\ rated = {}
    /\ aiService \in {"MockOpenaiService", "OpenaiService"}

NextContent ==
    \E r \in Reqs :
        \/ /\ RecFree
           /\ recs = <<>>
           /\ \E dto \in [classification : {"healthy", "unhealthy", "angular_leaf_spot"},
                           confidence : Confidences,
                           sessionId : {"sess_1"}] : GenerateStart(r, dto)
        \/ /\ aiService = "MockOpenaiService"
           /\ rq[r].pc = "generate"
           /\ GeneratorAnswer(r, GenerateMockRecommendation(rq[r].dto.classification,
                                                           rq[r].dto.confidence))
        \/ /\ aiService = "OpenaiService"
           /\ \E response \in ExternalResponses : OpenaiCompletion(r, response)
        \/ /\ aiService = "OpenaiService"
           /\ rq[r].pc = "completion"
           /\ GeneratorAnswer(r, ValidateAndEnhanceResponse(rq[r].external,
                                                           rq[r].dto.confidence))
        \/ /\ aiService = "OpenaiService"
           /\ rq[r].pc = "generate"
           /\ GeneratorAnswer(r, GeneratorError)
        \/ \E saved \in BOOLEAN : GenerateSave(r, saved)
        \/ RecRespond(r)

SpecContent == InitContent /\ [][NextContent]_vars

\* =========================================================================
\* Properties
\* =========================================================================
\* the handler in slot r has passed its checks and will sign tokens, or has
\* signed them
Passed(r) == req[r].pc = "issue" \/ (req[r].pc = "done" /\ req[r].status = "ok")
\* the response of slot r is going out
Done(r) == req[r].pc = "done"

\* C1: one request at a time, a refresh passes its checks only if the hash of
\* its token is the hash stored for the subject; after logout(u) the stored
\* hash of u is null and no refresh for u passes until u logs in again
C1_RefreshNeedsStoredHash ==
    /\ \A r \in Reqs :
          req[r].kind = "refresh" /\ req[r].pc = "issue" =>
              /\ req[r].uid \in Existing
              /\ users[req[r].uid].refreshToken = HashToken(req[r].rtok)
              /\ users[req[r].uid].refreshToken # NullHash
    /\ \A r \in Reqs : req[r].kind = "refresh" /\ Passed(r) => req[r].uid \notin loggedOut
    /\ \A u \in loggedOut : u \in Existing /\ users[u].refreshToken = NullHash

\* a refresh with a token that was signed for u is refused after logout(u)
C1_Witness ==
    \E r \in Reqs :
        /\ req[r].kind = "refresh" /\ Done(r) /\ req[r].status = "Unauthorized"
        /\ req[r].rtok \in IssuedRefresh
        /\ req[r].uid \in loggedOut

\* C2: with requests interleaving, once logout(u) has completed the hash
\* stored for u is null and stays null until the next login of u
C2_LogoutStaysCleared ==
    \A u \in Existing : u \in loggedOut => users[u].refreshToken = NullHash

\* C3 as stated: between deactivate(u) or remove(u) and activate(u) no login
\* and no refresh for u passes and no access token of u passes validation
C3_NoAuthUntilActivate ==
    \A r \in Reqs :
        \/ req[r].kind \in {"login", "refresh"} /\ Passed(r)
        \/ req[r].kind \in {"guarded", "logout"} /\ Done(r) /\ req[r].status # "Unauthorized"
        => req[r].uid \notin deactivated

\* C3: while the stored active flag of u is false no login and no refresh for
\* u passes and no access token of u passes validation; deactivate(u) and
\* remove(u) set the flag to false, and only activate(u) or an admin update
\* carrying isActive: true sets it back
C3_NoAuthWhileInactive ==
    /\ [](\A r \in Reqs :
            \/ req[r].kind \in {"login", "refresh"} /\ Passed(r)
            \/ req[r].kind \in {"guarded", "logout"} /\ Done(r) /\ req[r].status # "Unauthorized"
            => req[r].uid \in Existing /\ users[req[r].uid].isActive)
    /\ [][\A r \in Reqs :
            /\ req[r].kind \in {"deactivate", "remove"} /\ req[r].pc = "save" /\ Done(r)'
                  => ~users'[req[r].uid].isActive /\ req[r].uid \in deactivated'
            /\ \A u \in Existing :
                  ~users[u].isActive /\ users'[u].isActive /\ req[r] # req'[r] =>
                      /\ req[r].uid = u
                      /\ \/ req[r].kind = "activate"
                         \/ req[r].kind = "update" /\ req[r].dto.hasActive /\ req[r].dto.isActive
         ]_vars

\* a login with the right password is refused while u is deactivated
C3_Witness ==
    \E r \in Reqs :
        /\ req[r].kind = "login" /\ Done(r) /\ req[r].status = "Unauthorized"
        /\ req[r].uid \in deactivated
        /\ ~users[req[r].uid].isActive
        /\ ComparePassword(req[r].dto.password, users[req[r].uid].password)

\* C4: a register or an admin create whose email (as the store keeps it) a
\* stored user has is answered with Conflict, and the step leaves the users
\* collection as it was
C4_DuplicateIsConflict ==
    [][\A r \in Reqs :
          /\ req[r].pc = "idle"
          /\ req'[r].kind \in {"register", "create"}
          /\ RegisterWhitelisted(req'[r].dto) \/ req'[r].kind = "create"
          /\ \E u \in Existing : users[u].email = NormEmail(req'[r].dto.email)
          => /\ req'[r].pc = "done"
             /\ req'[r].status = "Conflict"
             /\ users' = users
      ]_vars

\* a register or create was refused with Conflict and the holder of the
\* address is still the only one
C4_Witness ==
    \E r \in Reqs :
        /\ req[r].kind \in {"register", "create"} /\ Done(r) /\ req[r].status = "Conflict"
        /\ Cardinality({u \in Existing : users[u].email = NormEmail(req[r].dto.email)}) = 1

\* C5: no two stored users have the same email, and a register or create
\* that does not succeed because the address is taken answers Conflict
C5_UniqueAndConflict ==
    /\ \A u, v \in Existing : users[u].email = users[v].email => u = v
    /\ \A r \in Reqs :
          /\ req[r].kind \in {"register", "create"} /\ Done(r)
          /\ \E u \in Existing : users[u].email = NormEmail(req[r].dto.email) /\ u # req[r].uid
          => req[r].status = "Conflict"

\* C6: every refused login carries the same message, whether the password
\* was wrong, the email unknown or the account deactivated
C6_SameMessage ==
    \A r \in Reqs :
        req[r].kind = "login" /\ Done(r) /\ req[r].status = "Unauthorized"
            => req[r].msg = "Invalid credentials"

\* C7: a request whose token passed validation is let through iff its route
\* requires no role or one of the required roles is in the caller's roles;
\* otherwise it is answered with Forbidden
C7_GateIffIntersect ==
    \A r \in Reqs :
        req[r].kind = "guarded" /\ Done(r) /\ req[r].status # "Unauthorized" =>
            LET needed == IF req[r].hasRequired THEN req[r].required ELSE {}
                allowed == needed = {} \/ needed \cap req[r].atok.roles # {}
            IN  /\ allowed => req[r].status = "ok"
                /\ ~allowed => req[r].status = "Forbidden"

\* a caller holding none of the required roles was answered with Forbidden,
\* and the route asked for more than one role
C7_Witness ==
    \E r \in Reqs :
        /\ req[r].kind = "guarded" /\ Done(r) /\ req[r].status = "Forbidden"
        /\ Cardinality(req[r].required) > 1
        /\ req[r].required \cap req[r].atok.roles = {}

\* C8: every stored user has a non-empty role set drawn from UserRole
C8_RolesNonEmpty ==
    \A u \in Existing : users[u].roles # {} /\ users[u].roles \subseteq UserRole

\* C9: the document a register request inserts has roles {FARMER} and is
\* active, and no step of a register, login or refresh request leaves a user
\* with MANAGER or ADMIN who did not have it before
C9_RegisterIsFarmer ==
    [][\A r \in Reqs :
          req[r] # req'[r] /\ req'[r].kind \in IssuingKinds =>
              \A u \in DOMAIN users' :
                  /\ u \notin Existing =>
                        users'[u].roles = {FARMER} /\ users'[u].isActive
                  /\ u \in Existing => users'[u].roles = users[u].roles
      ]_vars

\* a registration has inserted its user while another user holds a
\* privileged role
C9_Witness ==
    \E r \in Reqs :
        /\ req[r].kind = "register" /\ req[r].pc = "issue"
        /\ users[req[r].uid].roles = {FARMER}
        /\ \E v \in Existing : users[v].roles \cap {MANAGER, ADMIN} # {}

\* C10: with maxRetries N >= 1 a classify call sends at most N requests; it
\* sends exactly k when attempt k is the first to succeed, exactly N when
\* every attempt fails, and fails only after the N-th failed attempt
C10_RetryCount ==
    mlN >= 1 =>
        /\ mlSent <= mlN
        /\ mlFirstOk # 0 => mlSent = mlFirstOk
        /\ mlPc \in {"succeeded"} \/ mlResult = "prediction" => mlFirstOk # 0
        /\ mlPc = "failed" \/ mlResult = "InternalServerError" =>
              mlSent = mlN /\ mlFirstOk = 0
        /\ mlPc = "done" /\ mlFirstOk = 0 => mlSent = mlN /\ mlResult = "InternalServerError"
        /\ mlPc = "backoff" => mlSent < mlN /\ mlFirstOk = 0

\* a call with more than one attempt allowed has failed after the last one
C10_Witness ==
    /\ mlN > 1
    /\ mlPc = "done"
    /\ mlResult = "InternalServerError"
    /\ mlSent = mlN

C12_ValidatorRejects ==
    upPc # "idle" /\ Len(upFiles) > 0 =>
        LET refused == \E i \in 1..Len(upFiles) :
                          \/ upFiles[i].mime \notin AllowedMimeTypes
                          \/ upFiles[i].size > DefaultMaxFileSize
        IN  /\ refused => /\ upPc = "done"
                          /\ upStatus = "BadRequest"
                          /\ \A i \in 1..Len(task) : task[i].sent = 0
            /\ ~refused => upStatus # "BadRequest"

\* a batch was refused for a file one byte too large, next to a file of
\* exactly the maximum size
C12_Witness ==
    /\ upPc = "done" /\ upKind = "batch" /\ upStatus = "BadRequest"
    /\ \E i, j \in 1..Len(upFiles) :
          /\ upFiles[i].mime \in AllowedMimeTypes /\ upFiles[i].size = DefaultMaxFileSize
          /\ upFiles[j].mime \in AllowedMimeTypes /\ upFiles[j].size = DefaultMaxFileSize + 1

\* C13: the response of a batch has one entry per file, in input order;
\* entry i carries an error iff the classification of file i failed and a
\* prediction otherwise, whatever became of the other files and in whatever
\* order the calls completed
C13_BatchIsolation ==
    upKind = "batch" /\ upPc = "done" /\ upStatus = "ok" =>
        /\ Len(upResults) = Len(upFiles)
        /\ \A i \in 1..Len(upResults) :
              /\ upResults[i].file = i
              /\ upResults[i].error <=> ~task[i].lastOk
              /\ upResults[i].result <=> task[i].lastOk

\* a batch in which the first file failed after its last attempt and the
\* second succeeded
C13_Witness ==
    /\ upKind = "batch" /\ upPc = "done" /\ Len(upResults) = 2
    /\ upResults[1].error /\ ~upResults[1].result /\ task[1].sent = mlN
    /\ upResults[2].result /\ ~upResults[2].error

\* C15: a classify call whose attempts all failed fails with the error kind
\* UpstreamUnavailable
C15_UpstreamUnavailable ==
    mlN >= 1 /\ mlPc = "done" /\ mlFirstOk = 0 => mlResult = "UpstreamUnavailable"

\* C14: in the normalised result the predicted class has the reported
\* confidence as its probability and the other class the rest, so that the
\* two probabilities sum to one
C14_TwoClassDistribution ==
    pyOut # NoPrediction =>
        LET predicted == IF pyIn.status = "healthy" THEN "healthy" ELSE "angular_leaf_spot"
            other == IF predicted = "healthy" THEN "angular_leaf_spot" ELSE "healthy"
        IN  /\ pyOut.predicted_class = predicted
            /\ pyOut.probabilities[predicted] = pyIn.confidence
            /\ pyOut.probabilities[other] = ConfidenceSteps - pyIn.confidence
            /\ pyOut.probabilities.healthy + pyOut.probabilities.angular_leaf_spot
                  = ConfidenceSteps

\* C16: a generate call whose generator failed answers success=false with a
\* message and an elapsed time and leaves the stored records exactly as they
\* were before the call; the stored records differ from those before the call
\* only when the call answers success=true, and then by exactly one new record
C16_FailureWritesNothing ==
    \A r \in Reqs :
        (rq[r].pc = "done" /\ rq[r].kind = "generate") =>
            /\ rq[r].content = GeneratorError =>
                    /\ rq[r].status = "failure"
                    /\ rq[r].msg # ""
                    /\ rq[r].out.processingTimeMs >= 0
                    /\ recs = rq[r].before
            /\ recs # rq[r].before => rq[r].status = "success"
            /\ rq[r].status = "success" =>
                    /\ Len(recs) = Len(rq[r].before) + 1
                    /\ SubSeq(recs, 1, Len(rq[r].before)) = rq[r].before
                    /\ rq[r].out.data = Len(recs)

C16_Witness ==
    \E r \in Reqs :
        /\ rq[r].pc = "done"
        /\ rq[r].kind = "generate"
        /\ rq[r].content = GeneratorError
        /\ rq[r].status = "failure"
        /\ rq[r].before # <<>>

\* C17: after submitFeedback has answered with success, the rating and the
\* feedback text of the record are those of this submission (no text when the
\* submission had none) and updated-at is the time of the submission
C17_FeedbackOverwrites ==
    \A r \in Reqs :
        (rq[r].pc = "done" /\ rq[r].kind = "feedback" /\ rq[r].status = "ok") =>
            /\ recs[rq[r].dto.recommendationId].userRating = rq[r].dto.rating
            /\ recs[rq[r].dto.recommendationId].userFeedback = rq[r].dto.feedback
            /\ recs[rq[r].dto.recommendationId].updatedAt = rq[r].at

\* C18: when two submissions for the same id have read the same version of
\* the record, both have saved with success and the last write is one of
\* theirs, the stored (rating, feedback) pair is the pair of one of the two
C18_LastWriteWins ==
    \A r1, r2 \in Reqs :
        ( /\ r1 # r2
          /\ rq[r1].pc = "done" /\ rq[r1].kind = "feedback" /\ rq[r1].status = "ok"
          /\ rq[r2].pc = "done" /\ rq[r2].kind = "feedback" /\ rq[r2].status = "ok"
          /\ rq[r1].dto.recommendationId = rq[r2].dto.recommendationId
          /\ rq[r1].doc = rq[r2].doc
          /\ recs[rq[r1].dto.recommendationId].updatedAt \in {rq[r1].at, rq[r2].at} ) =>
            <<recs[rq[r1].dto.recommendationId].userRating,
              recs[rq[r1].dto.recommendationId].userFeedback>>
                \in {<<rq[r1].dto.rating, rq[r1].dto.feedback>>,
                     <<rq[r2].dto.rating, rq[r2].dto.feedback>>}

\* C19: no step removes a stored recommendation or changes its session id,
\* classification, confidence, content, generator identifier, prompt version
\* or created-at, and a step that changes a stored recommendation at all is
\* the save of a feedback submission for that recommendation
C19_OnlyFeedbackMutates ==
    [][\A i \in DOMAIN recs :
            /\ i \in DOMAIN recs'
            /\ \A f \in {"sessionId", "imageClassification", "classificationConfidence",
                         "content", "generatedBy", "promptVersion", "createdAt"} :
                    recs'[i][f] = recs[i][f]
            /\ recs'[i] # recs[i] =>
                    \E r \in Reqs : /\ rq[r].pc = "loaded"
                                    /\ rq[r].dto.recommendationId = i
                                    /\ rq'[r].pc = "done"]_vars

C19_Witness ==
    \E r \in Reqs :
        /\ rq[r].pc = "done"
        /\ rq[r].kind = "feedback"
        /\ rq[r].status = "ok"
        /\ recs[rq[r].dto.recommendationId] # rq[r].doc
        /\ Len(recs) = MaxRecs

\* C20: the average rating of the analytics is the mean of the ratings of the
\* recommendations on which feedback was saved, and null (count 0) when there
\* is none
C20_MeanOfRated ==
    \A r \in Reqs :
        (rq[r].pc = "done" /\ rq[r].kind = "analytics") =>
            IF rated = {}
            THEN rq[r].out.averageRating.count = 0
            ELSE /\ rq[r].out.averageRating.count > 0
                 /\ rq[r].out.averageRating.sum * Cardinality(rated)
                        = SumRatings(recs, rated) * rq[r].out.averageRating.count

\* C21: the user rating of every stored recommendation is absent or an
\* integer from 1 to 5
C21_RatingInRange ==
    \A i \in DOMAIN recs :
        recs[i].userRating = NoRating \/ recs[i].userRating \in 1..5

\* C22: a list answer holds min(limit, max(0, T - skip)) records, where T is
\* the number of records matching the filter; the k-th of them is the
\* matching record with exactly skip + k - 1 matching records created after
\* it; total = T, limit is the limit asked for, totalPages = ceil(T / limit)
\* and page = floor(skip / limit) + 1
C22_ListPage ==
    \A r \in Reqs :
        (rq[r].pc = "done" /\ rq[r].kind = "list") =>
            LET q == rq[r].dto
                page == rq[r].out.recommendations
                pg == rq[r].out.pagination
                M == {i \in DOMAIN recs :
                        /\ q.sessionId # "" => recs[i].sessionId = q.sessionId
                        /\ q.classification # "" =>
                                recs[i].imageClassification = q.classification}
                T == Cardinality(M)
                rest == IF T > q.skip THEN T - q.skip ELSE 0
            IN /\ Len(page) = IF q.limit < rest THEN q.limit ELSE rest
               /\ \A k \in 1..Len(page) :
                    /\ page[k] \in M
                    /\ Cardinality({j \in M : recs[j].createdAt > recs[page[k]].createdAt})
                            = q.skip + k - 1
               /\ pg.total = T
               /\ pg.limit = q.limit
               /\ pg.totalPages * q.limit >= T
               /\ (pg.totalPages - 1) * q.limit < T \/ (T = 0 /\ pg.totalPages = 0)
               /\ (pg.page - 1) * q.limit <= q.skip
               /\ q.skip < pg.page * q.limit

\* 25 records match, limit 10, skip 20: 5 records, 3 pages, page 3
C22_Witness ==
    \E r \in Reqs :
        /\ rq[r].pc = "done"
        /\ rq[r].kind = "list"
        /\ rq[r].dto.limit = 10
        /\ rq[r].dto.skip = 20
        /\ rq[r].out.pagination.total = 25
        /\ Len(rq[r].out.recommendations) = 5
        /\ rq[r].out.pagination.totalPages = 3
        /\ rq[r].out.pagination.page = 3

\* C29: a list answer that holds records reports a page number from 1 to
\* totalPages, and a list answer to a query whose skip is at least the number
\* of matching records holds no record
C29_PageWithinTotalPages ==
    \A r \in Reqs :
        (rq[r].pc = "done" /\ rq[r].kind = "list") =>
            /\ rq[r].out.recommendations # <<>> =>
                    /\ 1 <= rq[r].out.pagination.page
                    /\ rq[r].out.pagination.page <= rq[r].out.pagination.totalPages
            /\ rq[r].dto.skip >= rq[r].out.pagination.total =>
                    rq[r].out.recommendations = <<>>

\* a page reached by a skip that is no multiple of the limit, and the last one
C29_Witness ==
    \E r \in Reqs :
        /\ rq[r].pc = "done"
        /\ rq[r].kind = "list"
        /\ rq[r].out.recommendations # <<>>
        /\ rq[r].dto.skip % rq[r].dto.limit # 0
        /\ rq[r].out.pagination.page = rq[r].out.pagination.totalPages
        /\ rq[r].out.pagination.page > 1

\* C23: for a classification label that does not denote a healthy state the
\* templated generator answers severity moderate when c > 0.8, mild when
\* 0.6 < c <= 0.8 and severe otherwise
C23_TemplatedSeverity ==
    \A r \in Reqs :
        ( /\ aiService = "MockOpenaiService"
          /\ rq[r].kind = "generate"
          /\ rq[r].pc \in {"save", "done"}
          /\ rq[r].content # GeneratorError
          /\ rq[r].dto.classification \in {"unhealthy", "angular_leaf_spot"} ) =>
            rq[r].content.severity =
                IF 5 * rq[r].dto.confidence > 4 * ConfidenceSteps THEN "moderate"
                ELSE IF 5 * rq[r].dto.confidence > 3 * ConfidenceSteps THEN "mild"
                ELSE "severe"

\* C24: when the external generator answers a severity outside mild,
\* moderate, severe, the delegated generator answers the severity of the
\* templated generator's rule for the same confidence (moderate when c > 0.8,
\* mild when 0.6 < c <= 0.8, severe otherwise); a valid severity is kept
C24_SeverityCoercion ==
    \A r \in Reqs :
        ( /\ aiService = "OpenaiService"
          /\ rq[r].kind = "generate"
          /\ rq[r].pc \in {"save", "done"}
          /\ rq[r].content # GeneratorError ) =>
            rq[r].content.severity =
                IF rq[r].external.severity \in {"mild", "moderate", "severe"}
                THEN rq[r].external.severity
                ELSE IF 5 * rq[r].dto.confidence > 4 * ConfidenceSteps THEN "moderate"
                ELSE IF 5 * rq[r].dto.confidence > 3 * ConfidenceSteps THEN "mild"
                ELSE "severe"

\* C25: the content of every stored recommendation has confidence and
\* source-reliability within [0,1], a severity among mild, moderate, severe
\* and prevention-measure priorities among high, medium, low
C25_ContentNormalized ==
    \A i \in DOMAIN recs :
        /\ recs[i].content.confidence \in 0..ConfidenceSteps
        /\ recs[i].content.sourceReliability \in 0..ConfidenceSteps
        /\ recs[i].content.severity \in {"mild", "moderate", "severe"}
        /\ recs[i].content.priorities \subseteq {"high", "medium", "low"}

\* C26 as stated: a feedback submission whose id matches no stored
\* recommendation is answered with NotFound in the step that looks the id
\* up, and that step leaves the stored records as they are
C26_MissingIsNotFound ==
    [][\A r \in Reqs :
            ( /\ rq[r].pc = "idle"
              /\ rq'[r].kind = "feedback"
              /\ rq'[r].dto.recommendationId \notin DOMAIN recs ) =>
                /\ rq'[r].pc = "done"
                /\ rq'[r].status = "NotFound"
                /\ recs' = recs]_vars

\* C26 amended: a feedback submission whose id matches no stored
\* recommendation is answered with NotFound when the id is well formed and
\* with BadRequest when it is not, and leaves the stored records as they are
C26_MissingFailsUnchanged ==
    [][\A r \in Reqs :
            ( /\ rq[r].pc = "idle"
              /\ rq'[r].kind = "feedback"
              /\ rq'[r].dto.recommendationId \notin DOMAIN recs ) =>
                /\ rq'[r].pc = "done"
                /\ rq'[r].status = IF rq'[r].dto.recommendationId = 0 THEN "BadRequest"
                                   ELSE "NotFound"
                /\ recs' = recs]_vars

\* a well-formed id that matches none of the stored recommendations was
\* answered with NotFound
C26_Witness ==
    \E r \in Reqs :
        /\ rq[r].pc = "done"
        /\ rq[r].kind = "feedback"
        /\ rq[r].status = "NotFound"
        /\ rq[r].dto.recommendationId > Len(recs)
        /\ recs # <<>>

\* C28: a guarded request that passes token validation belongs to a user
\* whose stored active flag is true at that moment, and its role check is
\* decided by the roles carried in the token, whatever roles are stored for
\* the user now
C28_TokenRolesStoredActive ==
    \A r \in Reqs :
        req[r].kind = "guarded" /\ Done(r) /\ req[r].status # "Unauthorized" =>
            /\ req[r].atok \in IssuedAccess
            /\ users[req[r].atok.sub].isActive
            /\ req[r].status = "ok" <=>
                  \/ ~req[r].hasRequired
                  \/ req[r].required = {}
                  \/ \E role \in req[r].required : role \in req[r].atok.roles

\* a request was let through on a role of its token that an update has since
\* taken away from the stored user
C28_Witness ==
    \E r \in Reqs :
        /\ req[r].kind = "guarded" /\ Done(r) /\ req[r].status = "ok"
        /\ req[r].hasRequired /\ req[r].required # {}
        /\ req[r].required \cap users[req[r].atok.sub].roles = {}
        /\ req[r].atok.roles # users[req[r].atok.sub].roles

\* C27: a health request from a caller that presents no token is answered
\* with success and a body whose status is 'ok', whatever the two service
\* health checks report
C27_HealthOpenAndOk ==
    \A r \in Reqs :
        req[r].kind = "health" /\ Done(r) /\ req[r].atok = NoAcc =>
            req[r].status = "ok" /\ req[r].msg = "ok"
====
